---- MODULE Spec2Model ----
(***************************************************************************)
(* Model of annotate.py: correlation of a Clang JSON syntax tree with the  *)
(* lines of a source file (collect_line_annotations), the filter profiles  *)
(* (should_include_node), the explanation synthesizer HardcodedExplainer,  *)
(* the renderer (annotate_code_with_explanations) and the control flow of  *)
(* main.  Spec is a run of main; SpecExplain, SpecRender and SpecDeep are  *)
(* direct calls of the explainer, of the renderer and of the traversal.    *)
(***************************************************************************)
EXTENDS Integers, Sequences, FiniteSets, TLC

VARIABLES
    pc,                \* position of main (or of a direct explainer call)
    args_file,         \* args.file: the path given on the command line
    filter_config,     \* args.filter
    detailed,          \* args.detailed
    clang_output,      \* what the external parser will print for the file
    file_path,         \* main's file_path = os.path.abspath(args.file)
    ast_json,          \* the parsed document, None before/without it
    stack,             \* the pending calls of collect_line_annotations
    line_map,          \* line number -> set of node kinds
    visit,             \* history: the last mapping visited, line_map before it
    stack2,            \* history: the pending calls of a second traversal,
    line_map2,         \*   of the same document in another order, and its map
    next_line,         \* annotate_code_with_explanations: loop index i
    output,            \* what the renderer printed, one record per line
    warnings,          \* warnings printed by main
    exit_status,       \* -1 while running, then the process status
    ast_nodes,         \* explainer call: the list of tags passed
    source_line,       \* explainer call: the source text passed
    explanation,       \* explainer call: the returned string
    max_annotations,   \* args.max_annotations
    use_colors,        \* not args.no_colors
    lines,             \* the lines of the target file, as f.readlines() gives them
    nesting,           \* deep traversal: the number of nested nodes of the tree
    level,             \* deep traversal: the nesting level of the current node
    calls              \* deep traversal: the pending calls of collect_line_annotations

vars == <<pc, args_file, filter_config, detailed, clang_output, file_path,
          ast_json, stack, line_map, visit, stack2, line_map2, next_line,
          output, warnings, exit_status, ast_nodes, source_line, explanation,
          max_annotations, use_colors, lines, nesting, level, calls>>

mainVars == <<args_file, filter_config, clang_output, file_path, ast_json,
              stack, line_map, visit, stack2, line_map2, next_line, output,
              warnings, exit_status>>

explainerVars == <<ast_nodes, source_line, explanation>>

renderArgs == <<max_annotations, use_colors, lines>>

deepVars == <<nesting, level, calls>>

(***************************************************************************)
(* Bounds of the model.                                                    *)
(***************************************************************************)
\* largest line number a location of the generated trees carries
MaxLine == 4
\* longest tag list handed to the explainer directly
MaxTags == 3
\* deepest nesting of the trees handed to the deep traversal
MaxNesting == 510

(***************************************************************************)
(* JSON values as json.loads returns them.  A mapping keeps its keys in    *)
(* insertion order (keys[i] maps to items[i]); a list keeps its elements.  *)
(***************************************************************************)
None == [t |-> "none", s |-> "", n |-> 0, keys |-> <<>>, items |-> <<>>]
JStr(x) == [t |-> "str", s |-> x, n |-> 0, keys |-> <<>>, items |-> <<>>]
JInt(x) == [t |-> "int", s |-> "", n |-> x, keys |-> <<>>, items |-> <<>>]
JList(xs) == [t |-> "list", s |-> "", n |-> 0, keys |-> <<>>, items |-> xs]
JDict(ks, xs) == [t |-> "dict", s |-> "", n |-> 0, keys |-> ks, items |-> xs]

\* Python truth value of a JSON value
Truthy(v) ==
    CASE v.t = "none" -> FALSE
      [] v.t = "str" -> v.s # ""
      [] v.t = "int" -> v.n # 0
      [] OTHER -> Len(v.items) > 0

\* dict.get(key, default)
GetDefault(d, key, default) ==
    IF \E i \in 1..Len(d.keys) : d.keys[i] = key
    THEN d.items[CHOOSE i \in 1..Len(d.keys) : d.keys[i] = key]
    ELSE default

\* dict.get(key)
Get(d, key) == GetDefault(d, key, None)

\* Python's == on JSON values: mappings compare by key set and values,
\* whatever the insertion order; lists compare element by element.
RECURSIVE PyEq(_, _)
PyEq(a, b) ==
    IF a.t # b.t THEN FALSE
    ELSE CASE a.t = "dict" ->
                /\ {a.keys[i] : i \in 1..Len(a.keys)} = {b.keys[i] : i \in 1..Len(b.keys)}
                /\ \A i \in 1..Len(a.keys) : PyEq(a.items[i], Get(b, a.keys[i]))
           [] a.t = "list" ->
                /\ Len(a.items) = Len(b.items)
                /\ \A i \in 1..Len(a.items) : PyEq(a.items[i], b.items[i])
           [] OTHER -> a = b

(***************************************************************************)
(* os.path on the path strings of the model.  A path string is split into  *)
(* its components once (SplitPath); abspath, isabs and basename work on    *)
(* the components as posixpath does.                                       *)
(***************************************************************************)
Cwd == [abs |-> TRUE, parts |-> <<"proj">>]

SplitPath(p) ==
    CASE p = "" -> [abs |-> FALSE, parts |-> <<>>]
      [] p = "main.c" -> [abs |-> FALSE, parts |-> <<"main.c">>]
      [] p = "/proj/main.c" -> [abs |-> TRUE, parts |-> <<"proj", "main.c">>]
      [] p = "/proj/sub/../main.c" -> [abs |-> TRUE, parts |-> <<"proj", "sub", "..", "main.c">>]
      [] p = "/usr/include/main.c" -> [abs |-> TRUE, parts |-> <<"usr", "include", "main.c">>]
      [] p = "/usr/include/stdio.h" -> [abs |-> TRUE, parts |-> <<"usr", "include", "stdio.h">>]

isabs(path) == path.abs

\* posixpath.normpath on the components: "." is dropped, ".." removes the
\* component before it (and is dropped at the root)
RECURSIVE NormParts(_, _)
NormParts(parts, acc) ==
    IF parts = <<>> THEN acc
    ELSE LET c == Head(parts) IN
         IF c = "." THEN NormParts(Tail(parts), acc)
         ELSE IF c = ".." THEN
              NormParts(Tail(parts), IF acc = <<>> THEN acc ELSE SubSeq(acc, 1, Len(acc) - 1))
         ELSE NormParts(Tail(parts), Append(acc, c))

abspath(path) ==
    IF isabs(path) THEN [abs |-> TRUE, parts |-> NormParts(path.parts, <<>>)]
    ELSE [abs |-> TRUE, parts |-> NormParts(Cwd.parts \o path.parts, <<>>)]

basename(path) == IF path.parts = <<>> THEN "" ELSE path.parts[Len(path.parts)]

(***************************************************************************)
(* Filter profiles.                                                        *)
(***************************************************************************)
important_nodes ==
    {"FunctionDecl", "CXXMethodDecl", "CXXConstructorDecl", "CXXDestructorDecl",
     "CXXRecordDecl", "ClassTemplateDecl", "VarDecl", "FieldDecl",
     "IfStmt", "ForStmt", "WhileStmt", "CXXForRangeStmt", "SwitchStmt",
     "ReturnStmt", "BreakStmt", "ContinueStmt", "CompoundStmt"}

noise_nodes ==
    {"MaterializeTemporaryExpr", "CXXBindTemporaryExpr", "ExprWithCleanups",
     "ParenExpr", "AlignedAttr", "VisibilityAttr"}

decl_nodes ==
    {"FunctionDecl", "CXXMethodDecl", "CXXConstructorDecl", "CXXDestructorDecl",
     "CXXRecordDecl", "ClassTemplateDecl", "VarDecl", "FieldDecl",
     "ParmVarDecl", "NamespaceDecl", "UsingDecl", "TypedefDecl"}

stmt_nodes ==
    {"IfStmt", "ForStmt", "WhileStmt", "CXXForRangeStmt", "SwitchStmt",
     "ReturnStmt", "BreakStmt", "ContinueStmt", "CompoundStmt",
     "DeclStmt", "ExprStmt", "NullStmt"}

FilterChoices == {"minimal", "clean", "declarations", "statements", "all"}

should_include_node(kind, config) ==
    CASE config = "minimal" -> kind \in important_nodes
      [] config = "clean" -> kind \notin noise_nodes
      [] config = "declarations" -> kind \in decl_nodes
      [] config = "statements" -> kind \in stmt_nodes
      [] OTHER -> TRUE

(***************************************************************************)
(* Correlation: collect_line_annotations.                                  *)
(***************************************************************************)
EmptyMap == << >>

\* line_map.setdefault(line, set()).add(node_kind)
AddTag(map, line, kind) ==
    (line :> ((IF line \in DOMAIN map THEN map[line] ELSE {}) \cup {kind})) @@ map

\* the tag is registered without asking the profile
IncludeTagUnfiltered(map, line, kind, config) == AddTag(map, line, kind)

\* "if should_include_node(node_kind, filter_config): line_map.setdefault(...)"
IncludeTag(map, line, kind, config) ==
    IF should_include_node(kind, config) THEN AddTag(map, line, kind) ELSE map

\* only equal absolute paths match, not equal file names
FileMatchesAbsOnly(file_abs, target_abs) == file_abs = target_abs

\* file_abs == target_abs or basename(file_abs) == basename(target_abs)
FileMatches(file_abs, target_abs) ==
    \/ file_abs = target_abs
    \/ basename(file_abs) = basename(target_abs)

process_location(loc_info, node_kind, map, target_file_path, config) ==
    IF ~Truthy(loc_info) \/ loc_info.t # "dict" THEN map
    ELSE LET path == GetDefault(loc_info, "file", JStr(""))
             line == Get(loc_info, "line")
         IN  IF Truthy(line) /\ line.t = "int" /\ Truthy(node_kind)
             THEN LET target_abs == abspath(target_file_path) IN
                  IF ~Truthy(path)
                  THEN IncludeTag(map, line.n, node_kind.s, config)
                  ELSE LET file_abs == IF isabs(SplitPath(path.s))
                                       THEN abspath(SplitPath(path.s))
                                       ELSE SplitPath(path.s)
                       IN  IF FileMatches(file_abs, target_abs)
                           THEN IncludeTag(map, line.n, node_kind.s, config)
                           ELSE map
             ELSE map

\* the range is filled in: the kind is registered at every line from
\* begin to end
RegisterNodeFilled(node, map, target_file_path, config) ==
    LET kind == Get(node, "kind")
        loc == Get(node, "loc")
        m1 == IF Truthy(loc)
              THEN process_location(loc, kind, map, target_file_path, config)
              ELSE map
        range_info == Get(node, "range")
        b == Get(Get(range_info, "begin"), "line")
        e == Get(Get(range_info, "end"), "line")
    IN  IF b.t = "int" /\ e.t = "int" /\ Truthy(kind)
           /\ should_include_node(kind.s, config)
        THEN [L \in DOMAIN m1 \cup (b.n .. e.n) |->
                 (IF L \in DOMAIN m1 THEN m1[L] ELSE {})
                 \cup (IF L \in b.n .. e.n THEN {kind.s} ELSE {})]
        ELSE m1

\* the end of the range is never processed
RegisterNodeBeginOnly(node, map, target_file_path, config) ==
    LET kind == Get(node, "kind")
        loc == Get(node, "loc")
        m1 == IF Truthy(loc)
              THEN process_location(loc, kind, map, target_file_path, config)
              ELSE map
        range_info == Get(node, "range")
    IN  IF Truthy(range_info) /\ range_info.t = "dict" /\ Truthy(Get(range_info, "begin"))
        THEN process_location(Get(range_info, "begin"), kind, m1, target_file_path, config)
        ELSE m1

\* the registrations of one mapping node: its loc, then its range's begin
\* and end (annotate.py lines 323-336), without the recursion
RegisterNode(node, map, target_file_path, config) ==
    LET kind == Get(node, "kind")
        loc == Get(node, "loc")
        m1 == IF Truthy(loc)
              THEN process_location(loc, kind, map, target_file_path, config)
              ELSE map
        range_info == Get(node, "range")
    IN  IF Truthy(range_info) /\ range_info.t = "dict"
        THEN LET begin == Get(range_info, "begin")
                 end == Get(range_info, "end")
                 m2 == IF Truthy(begin)
                       THEN process_location(begin, kind, m1, target_file_path, config)
                       ELSE m1
             IN  IF Truthy(end) /\ ~PyEq(end, begin)
                 THEN process_location(end, kind, m2, target_file_path, config)
                 ELSE m2
        ELSE m1

\* a call of collect_line_annotations on a value that is neither a mapping
\* nor a list returns at once; the calls that do something are the ones on
\* mappings and lists
IsContainer(v) == v.t = "dict" \/ v.t = "list"

\* the values of a mapping whose kind the profile excludes are not visited
CallsOfIncludedOnly(frame, rest) ==
    LET children == SelectSeq(frame.node.items, IsContainer)
        kind == Get(frame.node, "kind")
    IN  IF frame.node.t = "dict" /\ kind.t = "str"
           /\ ~should_include_node(kind.s, filter_config)
        THEN rest
        ELSE [i \in 1..Len(children) |-> [node |-> children[i], depth |-> frame.depth + 1]]
             \o rest

\* The pending calls of the depth-first traversal, next call first: the
\* calls "for value in node.values()" (or "for item in node") makes, in
\* order, then the ones the callers still have to make.  depth is the
\* nesting of the call.
CallsOf(frame, rest) ==
    LET children == SelectSeq(frame.node.items, IsContainer)
    IN  [i \in 1..Len(children) |-> [node |-> children[i], depth |-> frame.depth + 1]]
        \o rest

\* one call of collect_line_annotations(node, line_map, ...), the first
\* pending one: [stack, map] after its own work, its nested calls pending
collect_line_annotations(pending, map, target_file_path, config) ==
    LET frame == Head(pending) IN
    IF frame.node.t = "dict"
    THEN [stack |-> CallsOf(frame, Tail(pending)),
          map |-> RegisterNode(frame.node, map, target_file_path, config)]
    ELSE [stack |-> CallsOf(frame, Tail(pending)), map |-> map]

(***************************************************************************)
(* HardcodedExplainer: the catalog, the pattern rules and the synthesizer. *)
(***************************************************************************)
explanations ==
    [FunctionDecl |-> "declares a function with its signature and body",
     CXXMethodDecl |-> "declares a class method or member function",
     CXXConstructorDecl |-> "declares a class constructor",
     CXXDestructorDecl |-> "declares a class destructor",
     CXXRecordDecl |-> "declares a class, struct, or union type",
     ClassTemplateDecl |-> "declares a class template",
     VarDecl |-> "declares a variable with optional initialization",
     FieldDecl |-> "declares a class member variable or field",
     ParmVarDecl |-> "declares a function parameter",
     NamespaceDecl |-> "declares or opens a namespace",
     UsingDecl |-> "brings a name from another namespace into scope",
     TypedefDecl |-> "creates a type alias using typedef",
     EnumDecl |-> "declares an enumeration type",
     EnumConstantDecl |-> "declares an enumeration constant",
     CompoundStmt |-> "represents a block of statements enclosed in braces {}",
     IfStmt |-> "represents an if conditional statement",
     ForStmt |-> "represents a traditional for loop",
     WhileStmt |-> "represents a while loop",
     CXXForRangeStmt |-> "represents a range-based for loop (C++11)",
     SwitchStmt |-> "represents a switch statement for multi-way branching",
     CaseStmt |-> "represents a case label in a switch statement",
     DefaultStmt |-> "represents the default case in a switch statement",
     ReturnStmt |-> "returns a value from a function",
     BreakStmt |-> "breaks out of a loop or switch statement",
     ContinueStmt |-> "continues to the next iteration of a loop",
     DeclStmt |-> "represents a declaration statement",
     ExprStmt |-> "represents an expression used as a statement",
     NullStmt |-> "represents an empty statement (just a semicolon)",
     DoStmt |-> "represents a do-while loop",
     GotoStmt |-> "represents a goto statement",
     LabelStmt |-> "represents a labeled statement",
     BinaryOperator |-> "performs a binary operation (e.g., +, -, ==, &&)",
     UnaryOperator |-> "performs a unary operation (e.g., ++, --, !, ~)",
     ConditionalOperator |-> "represents the ternary operator (condition ? true : false)",
     CallExpr |-> "represents a function call",
     CXXOperatorCallExpr |-> "represents an overloaded operator call in C++",
     CXXMemberCallExpr |-> "represents a call to a class member function",
     MemberExpr |-> "accesses a member of a struct/class (e.g., obj.member)",
     ArraySubscriptExpr |-> "accesses an array element using [] operator",
     DeclRefExpr |-> "references a previously declared variable or function",
     IntegerLiteral |-> "represents an integer constant (e.g., 42, 0xFF)",
     FloatingLiteral |-> "represents a floating-point constant (e.g., 3.14)",
     StringLiteral |-> "represents a string literal (e.g., \"hello\")",
     CharacterLiteral |-> "represents a character literal (e.g., 'a')",
     CXXBoolLiteralExpr |-> "represents a boolean literal (true or false)",
     CXXNullPtrLiteralExpr |-> "represents a nullptr literal",
     AssignmentOperator |-> "assigns a value to a variable (=, +=, -=, etc.)",
     CompoundAssignOperator |-> "performs compound assignment (+=, -=, *=, etc.)",
     CXXNewExpr |-> "allocates memory using the new operator",
     CXXDeleteExpr |-> "deallocates memory using the delete operator",
     CXXThisExpr |-> "represents the 'this' pointer in a class method",
     CXXThrowExpr |-> "throws an exception",
     CXXTryStmt |-> "represents a try-catch block for exception handling",
     CXXCatchStmt |-> "represents a catch block in exception handling",
     CXXConstructExpr |-> "constructs an object using a constructor",
     CXXTemporaryObjectExpr |-> "creates a temporary object",
     CXXFunctionalCastExpr |-> "performs a functional-style cast",
     CXXStaticCastExpr |-> "performs a static_cast",
     CXXDynamicCastExpr |-> "performs a dynamic_cast",
     CXXReinterpretCastExpr |-> "performs a reinterpret_cast",
     CXXConstCastExpr |-> "performs a const_cast",
     ImplicitCastExpr |-> "performs an implicit type conversion",
     CStyleCastExpr |-> "performs a C-style cast",
     ParenExpr |-> "represents parenthesized expression",
     SizeOfExpr |-> "calculates the size of a type or expression",
     MaterializeTemporaryExpr |-> "materializes a temporary object",
     ExprWithCleanups |-> "manages cleanup of temporary objects",
     CXXBindTemporaryExpr |-> "binds a temporary object for cleanup",
     AlignedAttr |-> "specifies memory alignment requirements",
     VisibilityAttr |-> "controls symbol visibility",
     DeprecatedAttr |-> "marks a declaration as deprecated",
     NoReturnAttr |-> "indicates a function never returns",
     TemplateTypeParmDecl |-> "declares a template type parameter",
     NonTypeTemplateParmDecl |-> "declares a non-type template parameter",
     TemplateTemplateParmDecl |-> "declares a template template parameter",
     ClassTemplateSpecializationDecl |-> "specializes a class template",
     FunctionTemplateDecl |-> "declares a function template",
     LambdaExpr |-> "defines a lambda expression (anonymous function)",
     CXXDefaultArgExpr |-> "represents a default argument in function call",
     InitListExpr |-> "represents brace-enclosed initializer list",
     DesignatedInitExpr |-> "represents designated initializer (C99/C++20)",
     CompoundLiteralExpr |-> "represents a compound literal",
     MacroExpansion |-> "represents an expanded macro",
     InclusionDirective |-> "represents a #include directive"]

patterns ==
    <<[nodes |-> <<"FunctionDecl", "CompoundStmt">>,
       text |-> "defines a function with a body containing statements"],
      [nodes |-> <<"FunctionDecl", "ParmVarDecl">>,
       text |-> "defines a function that takes parameters"],
      [nodes |-> <<"CallExpr", "DeclRefExpr">>,
       text |-> "calls a previously declared function"],
      [nodes |-> <<"VarDecl", "IntegerLiteral">>,
       text |-> "declares an integer variable with a literal value"],
      [nodes |-> <<"VarDecl", "CallExpr">>,
       text |-> "declares a variable initialized by a function call"],
      [nodes |-> <<"AssignmentOperator", "DeclRefExpr">>,
       text |-> "assigns a value to an existing variable"],
      [nodes |-> <<"IfStmt", "BinaryOperator">>,
       text |-> "conditional statement with a comparison"],
      [nodes |-> <<"ForStmt", "BinaryOperator">>,
       text |-> "for loop with a comparison condition"],
      [nodes |-> <<"WhileStmt", "BinaryOperator">>,
       text |-> "while loop with a comparison condition"],
      [nodes |-> <<"CXXRecordDecl", "CXXMethodDecl">>,
       text |-> "defines a class with member methods"],
      [nodes |-> <<"CXXRecordDecl", "FieldDecl">>,
       text |-> "defines a class with member variables"],
      [nodes |-> <<"CXXConstructorDecl", "MemberExpr">>,
       text |-> "constructor that initializes member variables"],
      [nodes |-> <<"BinaryOperator", "DeclRefExpr">>,
       text |-> "performs an operation on variables"],
      [nodes |-> <<"CallExpr", "MemberExpr">>,
       text |-> "calls a method on an object"],
      [nodes |-> <<"ArraySubscriptExpr", "DeclRefExpr">>,
       text |-> "accesses an array element"],
      [nodes |-> <<"CXXNewExpr", "CXXConstructExpr">>,
       text |-> "dynamically creates an object"],
      [nodes |-> <<"CXXDeleteExpr", "DeclRefExpr">>,
       text |-> "deallocates a dynamically allocated object"]>>

\* The tags of the model in the order Python's sorted() gives strings
\* (by code point).
TagOrder ==
    <<"CompoundStmt", "DeclStmt", "FunctionDecl", "IntegerLiteral", "ParenExpr",
      "ParmVarDecl", "ReturnStmt", "TranslationUnitDecl", "UnheardOfNodeXYZ",
      "VarDecl">>

Rank(tag) == CHOOSE i \in 1..Len(TagOrder) : TagOrder[i] = tag

\* the list is used as passed, unsorted
unsorted(seq) == seq

\* list insertion keeping the order of sorted(): before the first element
\* that is greater
RECURSIVE InsertSorted(_, _)
InsertSorted(x, seq) ==
    IF seq = <<>> THEN <<x>>
    ELSE IF Rank(x) < Rank(Head(seq)) THEN <<x>> \o seq
    ELSE <<Head(seq)>> \o InsertSorted(x, Tail(seq))

\* sorted(list)
RECURSIVE sorted(_)
sorted(seq) ==
    IF seq = <<>> THEN <<>>
    ELSE InsertSorted(seq[Len(seq)], sorted(SubSeq(seq, 1, Len(seq) - 1)))

\* an iteration order of a set (Python leaves it unspecified)
RECURSIVE SetToSeq(_)
SetToSeq(S) ==
    IF S = {} THEN <<>>
    ELSE LET x == CHOOSE y \in S : TRUE IN <<x>> \o SetToSeq(S \ {x})

Elems(seq) == {seq[i] : i \in 1..Len(seq)}

\* the loop does not stop at the first rule that matches: the last one wins
RECURSIVE MatchPatternLast(_, _)
MatchPatternLast(i, sorted_nodes) ==
    IF i > Len(patterns) THEN ""
    ELSE LET later == MatchPatternLast(i + 1, sorted_nodes) IN
         IF later # "" THEN later
         ELSE IF \A j \in 1..Len(patterns[i].nodes) : patterns[i].nodes[j] \in Elems(sorted_nodes)
         THEN patterns[i].text
         ELSE ""

\* the loop over self.patterns from rule i on: the first rule all of whose
\* nodes are in sorted_nodes returns; "" stands for "no rule returned"
RECURSIVE MatchPattern(_, _)
MatchPattern(i, sorted_nodes) ==
    IF i > Len(patterns) THEN ""
    ELSE IF \A j \in 1..Len(patterns[i].nodes) : patterns[i].nodes[j] \in Elems(sorted_nodes)
    THEN patterns[i].text
    ELSE MatchPattern(i + 1, sorted_nodes)

\* an unknown tag is described by its bare name
DescribeBare(node) ==
    IF node \in DOMAIN explanations THEN explanations[node] ELSE node

\* one entry of the fallback list
Describe(node) ==
    IF node \in DOMAIN explanations
    THEN explanations[node]
    ELSE "AST node: " \o node

\* ', '.join(list)
RECURSIVE JoinComma(_)
JoinComma(seq) ==
    IF seq = <<>> THEN ""
    ELSE IF Len(seq) = 1 THEN seq[1]
    ELSE seq[1] \o ", " \o JoinComma(Tail(seq))

\* three or more descriptions are all joined with commas, without "and"
CombineCommas(descs) ==
    IF Len(descs) = 1 THEN descs[1]
    ELSE IF Len(descs) = 2 THEN descs[1] \o " and " \o descs[2]
    ELSE "combines " \o JoinComma(descs)

Combine(descs) ==
    IF Len(descs) = 1 THEN descs[1]
    ELSE IF Len(descs) = 2 THEN descs[1] \o " and " \o descs[2]
    ELSE "combines " \o JoinComma(SubSeq(descs, 1, Len(descs) - 1))
         \o ", and " \o descs[Len(descs)]

explain_ast_nodes(nodes, text) ==
    IF nodes = <<>> THEN ""
    ELSE LET sorted_nodes == sorted(nodes)
             matched == MatchPattern(1, sorted_nodes)
         IN  IF matched # "" THEN matched
             ELSE Combine([i \in 1..Len(sorted_nodes) |-> Describe(sorted_nodes[i])])

\* What the tests of get_detailed_explanation find in source_line.lower().strip(),
\* for the source texts of the model.
LineFacts(text) ==
    LET no == [main |-> FALSE, type |-> FALSE, include |-> FALSE, out |-> FALSE,
               in |-> FALSE, assign |-> FALSE]
    IN  CASE text = "int main() {" -> [no EXCEPT !.main = TRUE]
          [] text = "  int x = 5;" -> [no EXCEPT !.assign = TRUE]
          [] text = "  return x;" -> no
          [] text = "}" -> no
          [] text = "" -> no
          [] text = "class Foo {" -> [no EXCEPT !.type = TRUE]
          [] text = "#include <stdio.h>" -> [no EXCEPT !.include = TRUE]
          [] text = "  printf(\"%d\", x = 5);" -> [no EXCEPT !.out = TRUE, !.assign = TRUE]
          [] text = "  std::cin >> x;" -> [no EXCEPT !.in = TRUE]
          [] text = "for (i = 0; i < n; i++);" -> no
          [] text = "  static const unsigned long long accumulated_total_of_all_measurements = initial_measurement_value;"
               -> [no EXCEPT !.assign = TRUE]
          [] text = "  static const unsigned long long accumulated_total_of_all_measurements = compute_initial_measurement_value(42);"
               -> [no EXCEPT !.assign = TRUE]

ContextHint(text) ==
    LET f == LineFacts(text) IN
    IF f.main THEN " (this is the program's entry point)"
    ELSE IF f.type THEN " (defining a new data type)"
    ELSE IF f.include THEN " (including external code)"
    ELSE IF f.out THEN " (performing output operation)"
    ELSE IF f.in THEN " (performing input operation)"
    ELSE IF f.assign THEN " (assignment or initialization)"
    ELSE ""

get_detailed_explanation(nodes, text) ==
    explain_ast_nodes(nodes, text) \o ContextHint(text)

(***************************************************************************)
(* Rendering: annotate_code_with_explanations.                             *)
(***************************************************************************)
\* the lines of the four-line snippet (f.readlines(), newline stripped)
SourceLines == <<"int main() {", "  int x = 5;", "  return x;", "}">>

\* argparse default of --compact
compact_mode == FALSE

get_node_color(kind) ==
    IF kind \in {"FunctionDecl", "CXXMethodDecl", "CXXConstructorDecl", "CXXDestructorDecl"}
    THEN "bright_blue"
    ELSE IF kind \in {"CXXRecordDecl", "ClassTemplateDecl"} THEN "bright_green"
    ELSE IF kind \in {"VarDecl", "FieldDecl", "ParmVarDecl"} THEN "bright_yellow"
    ELSE IF kind \in {"IfStmt", "ForStmt", "WhileStmt", "CXXForRangeStmt", "SwitchStmt"}
    THEN "bright_magenta"
    ELSE IF kind \in {"ReturnStmt", "BreakStmt", "ContinueStmt"} THEN "bright_red"
    ELSE "white"

\* seq[:stop]: the first stop elements, or all but the last -stop ones when
\* stop is negative
SliceTo(seq, stop) ==
    IF stop >= 0
    THEN SubSeq(seq, 1, IF stop < Len(seq) THEN stop ELSE Len(seq))
    ELSE SubSeq(seq, 1, IF Len(seq) + stop > 0 THEN Len(seq) + stop ELSE 0)

\* a Python integer as str() formats it
Str(n) == IF n < 0 THEN "-" \o ToString(0 - n) ELSE ToString(n)

\* sorted_kinds cut to max_annotations entries, with the "+K more" entry
DisplayedKinds(sorted_kinds) ==
    IF Len(sorted_kinds) > max_annotations
    THEN Append(SliceTo(sorted_kinds, max_annotations),
                "... +" \o Str(Len(sorted_kinds) - max_annotations) \o " more")
    ELSE sorted_kinds

\* one entry of colored_kinds; more is TRUE for the "+K more" entry
ColoredKind(kind, more) ==
    IF more THEN "[dim]" \o kind \o "[/dim]"
    ELSE "[" \o get_node_color(kind) \o "]" \o kind \o "[/" \o get_node_color(kind) \o "]"

AstAnnotation(map, i) ==
    IF i \in DOMAIN map
    THEN LET sorted_kinds == sorted(SetToSeq(map[i]))
             displayed_kinds == DisplayedKinds(sorted_kinds)
             truncated == Len(sorted_kinds) > max_annotations
         IN  IF use_colors
             THEN " // " \o JoinComma([j \in 1..Len(displayed_kinds) |->
                      ColoredKind(displayed_kinds[j],
                                  truncated /\ j = Len(displayed_kinds))])
             ELSE " // " \o JoinComma(displayed_kinds)
    ELSE ""

\* the explanation line printed under line i ("" when none is printed)
LineExplanation(map, i, code_content, is_detailed) ==
    IF i \in DOMAIN map
    THEN IF is_detailed
         THEN get_detailed_explanation(sorted(SetToSeq(map[i])), code_content)
         ELSE explain_ast_nodes(sorted(SetToSeq(map[i])), code_content)
    ELSE ""

\* what one iteration of the loop over the lines prints
RenderedLine(map, i, is_detailed) ==
    [num |-> i,
     code |-> lines[i],
     displayed |-> IF i \in DOMAIN map
                   THEN DisplayedKinds(sorted(SetToSeq(map[i])))
                   ELSE <<>>,
     annotation |-> AstAnnotation(map, i),
     wrapped |-> AstAnnotation(map, i) # ""
                 /\ Len(lines[i] \o AstAnnotation(map, i)) > 120,
     explanation |-> LineExplanation(map, i, lines[i], is_detailed)]

(***************************************************************************)
(* The documents the external parser may print.  Optional fields are given *)
(* as sequences of at most one element.  Two families: the tree of the     *)
(* four-line snippet with one more node (the probe) as first statement of  *)
(* the body, and a translation unit holding the probe alone.               *)
(***************************************************************************)
\* a location {file?, line?, col?}
LocOf(file, line, col) ==
    JDict((IF file = <<>> THEN <<>> ELSE <<"file">>)
            \o (IF line = <<>> THEN <<>> ELSE <<"line">>)
            \o (IF col = <<>> THEN <<>> ELSE <<"col">>),
          (IF file = <<>> THEN <<>> ELSE <<JStr(file[1])>>)
            \o (IF line = <<>> THEN <<>> ELSE <<JInt(line[1])>>)
            \o (IF col = <<>> THEN <<>> ELSE <<JInt(col[1])>>))

RangeOf(begin, end) == JDict(<<"begin", "end">>, <<begin, end>>)

\* a node {kind?, loc?, range?, inner?}
NodeOf(kind, loc, range, inner) ==
    JDict((IF kind = <<>> THEN <<>> ELSE <<"kind">>)
            \o (IF loc = <<>> THEN <<>> ELSE <<"loc">>)
            \o (IF range = <<>> THEN <<>> ELSE <<"range">>)
            \o (IF inner = <<>> THEN <<>> ELSE <<"inner">>),
          (IF kind = <<>> THEN <<>> ELSE <<JStr(kind[1])>>)
            \o loc \o range
            \o (IF inner = <<>> THEN <<>> ELSE <<JList(inner)>>))

ProbeKinds == {<<"VarDecl">>, <<"ParenExpr">>, <<"UnheardOfNodeXYZ">>, <<"">>, <<>>}

ProbeFiles ==
    {<<>>, <<"">>, <<"main.c">>, <<"/proj/main.c">>, <<"/proj/sub/../main.c">>,
     <<"/usr/include/main.c">>, <<"/usr/include/stdio.h">>}

ProbeLines == {<<>>} \cup {<<l>> : l \in 0..MaxLine}

\* probes with a direct location only, and probes with a range only (whose
\* end is the same mapping as begin, or differs from it in line or column)
ProbePlaces ==
    {[loc |-> <<LocOf(f, l, <<>>)>>, range |-> <<>>] : f \in ProbeFiles, l \in ProbeLines}
    \cup
    {[loc |-> <<>>, range |-> <<RangeOf(LocOf(<<>>, <<b>>, <<3>>), LocOf(<<>>, <<e>>, <<c>>))>>] :
        b \in 1..MaxLine, e \in 1..MaxLine, c \in {3, 9}}

Probes ==
    {NodeOf(k, p.loc, p.range, <<>>) :
        k \in ProbeKinds,
        p \in {q \in ProbePlaces :
                  q.range = <<>>
                  \/ Get(Get(q.range[1], "begin"), "line").n <= Get(Get(q.range[1], "end"), "line").n}}

NoLoc == LocOf(<<>>, <<>>, <<>>)

SnippetTree(probe) ==
    NodeOf(<<"TranslationUnitDecl">>, <<NoLoc>>, <<RangeOf(NoLoc, NoLoc)>>,
      <<NodeOf(<<"FunctionDecl">>, <<LocOf(<<>>, <<1>>, <<>>)>>,
               <<RangeOf(LocOf(<<>>, <<1>>, <<>>), LocOf(<<>>, <<4>>, <<>>))>>,
          <<NodeOf(<<"CompoundStmt">>, <<>>,
                   <<RangeOf(LocOf(<<>>, <<1>>, <<>>), LocOf(<<>>, <<4>>, <<>>))>>,
              <<probe,
                NodeOf(<<"ReturnStmt">>, <<>>,
                       <<RangeOf(LocOf(<<>>, <<3>>, <<3>>), LocOf(<<>>, <<>>, <<10>>))>>,
                       <<>>)>>)>>)>>)

ProbeTree(probe) ==
    NodeOf(<<"TranslationUnitDecl">>, <<NoLoc>>, <<RangeOf(NoLoc, NoLoc)>>, <<probe>>)

\* A translation unit whose only child is an ancestor of the probe that
\* registers nothing itself: it has no kind and no location, or a kind the
\* profile clean excludes, or a location in another file, or it holds the
\* probe as a mapping value and not in a list.
Ancestors(probe) ==
    {NodeOf(<<>>, <<>>, <<>>, <<probe>>),
     NodeOf(<<"ParenExpr">>, <<LocOf(<<>>, <<1>>, <<>>)>>, <<>>, <<probe>>),
     NodeOf(<<"VarDecl">>, <<LocOf(<<"/usr/include/stdio.h">>, <<1>>, <<>>)>>, <<>>, <<probe>>),
     JDict(<<"kind", "referencedDecl">>, <<JStr("DeclRefExpr"), probe>>)}

\* the probes that carry a direct location
LocatedProbes == {p \in Probes : Get(p, "loc") # None}

NestedTrees == UNION {{ProbeTree(a) : a \in Ancestors(p)} : p \in LocatedProbes}

Documents ==
    {SnippetTree(p) : p \in Probes} \cup {ProbeTree(p) : p \in Probes} \cup NestedTrees

\* The same document with every mapping's keys and every list's elements
\* in the opposite order.
RECURSIVE Reordered(_)
Reordered(v) ==
    IF IsContainer(v)
    THEN [v EXCEPT !.keys = [i \in 1..Len(v.keys) |-> v.keys[Len(v.keys) + 1 - i]],
                   !.items = [i \in 1..Len(v.items) |-> Reordered(v.items[Len(v.items) + 1 - i])]]
    ELSE v

(***************************************************************************)
(* main                                                                    *)
(***************************************************************************)
NoVisit == [node |-> None, before |-> EmptyMap]

Init ==
    /\ pc = "start"
    /\ args_file = "main.c"
    /\ filter_config \in FilterChoices
    /\ detailed \in BOOLEAN
    /\ clang_output \in Documents
    /\ file_path = SplitPath("")
    /\ ast_json = None
    /\ stack = <<>>
    /\ line_map = EmptyMap
    /\ visit = NoVisit
    /\ stack2 = <<>>
    /\ line_map2 = EmptyMap
    /\ next_line = 0
    /\ output = <<>>
    /\ warnings = <<>>
    /\ exit_status = -1
    /\ ast_nodes = <<>>
    /\ source_line = ""
    /\ explanation = ""
    /\ max_annotations = 5
    /\ use_colors = TRUE
    /\ lines = SourceLines
    /\ nesting = 0
    /\ level = 0
    /\ calls = 0

\* validate_file returns False: sys.exit(1)
ValidateFileFails ==
    /\ pc = "start"
    /\ pc' = "exit"
    /\ exit_status' = 1
    /\ UNCHANGED <<args_file, filter_config, detailed, clang_output, file_path,
                   ast_json, stack, line_map, visit, stack2, line_map2,
                   next_line, output, warnings>>
    /\ UNCHANGED <<explainerVars, renderArgs, deepVars>>

\* validate_file returns True; file_path = os.path.abspath(args.file)
ValidateFileOk ==
    /\ pc = "start"
    /\ file_path' = abspath(SplitPath(args_file))
    /\ pc' = "validated"
    /\ UNCHANGED <<args_file, filter_config, detailed, clang_output,
                   ast_json, stack, line_map, visit, stack2, line_map2,
                   next_line, output, warnings, exit_status>>
    /\ UNCHANGED <<explainerVars, renderArgs, deepVars>>

\* run_clang_ast_dump returns None (clang failed, printed nothing, timed
\* out, is not installed, or printed no JSON): sys.exit(1)
ClangFails ==
    /\ pc = "validated"
    /\ pc' = "exit"
    /\ exit_status' = 1
    /\ UNCHANGED <<args_file, filter_config, detailed, clang_output, file_path,
                   ast_json, stack, line_map, visit, stack2, line_map2,
                   next_line, output, warnings>>
    /\ UNCHANGED <<explainerVars, renderArgs, deepVars>>

\* run_clang_ast_dump returns the parsed document; line_map = {} and the
\* call collect_line_annotations(ast_json, line_map, file_path, args.filter)
\* is pending.  The second traversal is the one of the reordered document.
ClangOk ==
    /\ pc = "validated"
    /\ ast_json' = clang_output
    /\ line_map' = EmptyMap
    /\ stack' = <<[node |-> clang_output, depth |-> 1]>>
    /\ line_map2' = EmptyMap
    /\ stack2' = <<[node |-> Reordered(clang_output), depth |-> 1]>>
    /\ pc' = "collect"
    /\ UNCHANGED <<args_file, filter_config, detailed, clang_output, file_path,
                   visit, next_line, output, warnings, exit_status>>
    /\ UNCHANGED <<explainerVars, renderArgs, deepVars>>

\* the second traversal makes its next call whenever the first one does
Traverse2 ==
    LET r == collect_line_annotations(stack2, line_map2, file_path, filter_config)
    IN  /\ stack2' = r.stack
        /\ line_map2' = r.map

\* collect_line_annotations on a mapping: the node's registrations, then
\* its values
VisitDict ==
    /\ pc = "collect"
    /\ stack # <<>>
    /\ Head(stack).node.t = "dict"
    /\ LET r == collect_line_annotations(stack, line_map, file_path, filter_config)
       IN  /\ stack' = r.stack
           /\ line_map' = r.map
    /\ visit' = [node |-> Head(stack).node, before |-> line_map]
    /\ Traverse2
    /\ UNCHANGED <<pc, args_file, filter_config, detailed, clang_output, file_path,
                   ast_json, next_line, output, warnings, exit_status>>
    /\ UNCHANGED <<explainerVars, renderArgs, deepVars>>

\* collect_line_annotations on a list: its items
VisitList ==
    /\ pc = "collect"
    /\ stack # <<>>
    /\ Head(stack).node.t = "list"
    /\ LET r == collect_line_annotations(stack, line_map, file_path, filter_config)
       IN  /\ stack' = r.stack
           /\ line_map' = r.map
    /\ Traverse2
    /\ UNCHANGED <<pc, args_file, filter_config, detailed, clang_output, file_path,
                   ast_json, visit, next_line, output, warnings, exit_status>>
    /\ UNCHANGED <<explainerVars, renderArgs, deepVars>>

\* the empty result ends the process with status 1
WarnEmptyFatal ==
    /\ pc = "collect"
    /\ stack = <<>>
    /\ DOMAIN line_map = {}
    /\ warnings' = Append(warnings, "No AST annotations found")
    /\ pc' = "exit"
    /\ exit_status' = 1
    /\ UNCHANGED <<args_file, filter_config, detailed, clang_output, file_path,
                   ast_json, stack, line_map, visit, stack2, line_map2,
                   next_line, output>>
    /\ UNCHANGED <<explainerVars, renderArgs, deepVars>>

\* the traversal has returned; "if not line_map": the warning, then return
WarnEmpty ==
    /\ pc = "collect"
    /\ stack = <<>>
    /\ DOMAIN line_map = {}
    /\ warnings' = Append(warnings, "No AST annotations found")
    /\ pc' = "exit"
    /\ exit_status' = 0
    /\ UNCHANGED <<args_file, filter_config, detailed, clang_output, file_path,
                   ast_json, stack, line_map, visit, stack2, line_map2,
                   next_line, output>>
    /\ UNCHANGED <<explainerVars, renderArgs, deepVars>>

\* the else branch, up to the call of annotate_code_with_explanations
StartRender ==
    /\ pc = "collect"
    /\ stack = <<>>
    /\ DOMAIN line_map # {}
    /\ next_line' = 1
    /\ pc' = "render"
    /\ UNCHANGED <<args_file, filter_config, detailed, clang_output, file_path,
                   ast_json, stack, line_map, visit, stack2, line_map2,
                   output, warnings, exit_status>>
    /\ UNCHANGED <<explainerVars, renderArgs, deepVars>>

\* one iteration of "for i, line in enumerate(lines, start=1)"
RenderLine ==
    /\ pc = "render"
    /\ next_line <= Len(lines)
    /\ output' = IF compact_mode /\ lines[next_line] = ""
                    /\ next_line \notin DOMAIN line_map
                 THEN output
                 ELSE Append(output, RenderedLine(line_map, next_line, detailed))
    /\ next_line' = next_line + 1
    /\ UNCHANGED <<pc, args_file, filter_config, detailed, clang_output, file_path,
                   ast_json, stack, line_map, visit, stack2, line_map2,
                   warnings, exit_status>>
    /\ UNCHANGED <<explainerVars, renderArgs, deepVars>>

\* the loop has ended; main returns
RenderDone ==
    /\ pc = "render"
    /\ next_line > Len(lines)
    /\ pc' = "exit"
    /\ exit_status' = 0
    /\ UNCHANGED <<args_file, filter_config, detailed, clang_output, file_path,
                   ast_json, stack, line_map, visit, stack2, line_map2,
                   next_line, output, warnings>>
    /\ UNCHANGED <<explainerVars, renderArgs, deepVars>>

Next ==
    \/ ValidateFileFails
    \/ ValidateFileOk
    \/ ClangFails
    \/ ClangOk
    \/ VisitDict
    \/ VisitList
    \/ WarnEmpty
    \/ StartRender
    \/ RenderLine
    \/ RenderDone

Spec == Init /\ [][Next]_vars

(***************************************************************************)
(* Direct calls of the explainer on a list of tags and a source text.      *)
(***************************************************************************)
ExplainTags ==
    {"FunctionDecl", "CompoundStmt", "ParmVarDecl", "VarDecl", "IntegerLiteral",
     "ReturnStmt", "UnheardOfNodeXYZ"}

ExplainTexts ==
    {"", "int main() {", "  int x = 5;", "  return x;", "class Foo {",
     "#include <stdio.h>", "  printf(\"%d\", x = 5);", "  std::cin >> x;",
     "for (i = 0; i < n; i++);"}

\* the lists of at most MaxTags distinct tags, in every order
TagLists ==
    {s \in UNION {[1..n -> ExplainTags] : n \in 0..MaxTags} :
        \A i, j \in 1..Len(s) : i # j => s[i] # s[j]}

InitExplain ==
    /\ pc = "call"
    /\ ast_nodes \in TagLists
    /\ source_line \in ExplainTexts
    /\ detailed \in BOOLEAN
    /\ explanation = ""
    /\ args_file = ""
    /\ filter_config = "clean"
    /\ clang_output = None
    /\ file_path = SplitPath("")
    /\ ast_json = None
    /\ stack = <<>>
    /\ line_map = EmptyMap
    /\ visit = NoVisit
    /\ stack2 = <<>>
    /\ line_map2 = EmptyMap
    /\ next_line = 0
    /\ output = <<>>
    /\ warnings = <<>>
    /\ exit_status = -1
    /\ max_annotations = 5
    /\ use_colors = TRUE
    /\ lines = SourceLines
    /\ nesting = 0
    /\ level = 0
    /\ calls = 0

\* explainer.explain_ast_nodes(ast_nodes, source_line)
CallExplain ==
    /\ pc = "call"
    /\ ~detailed
    /\ explanation' = explain_ast_nodes(ast_nodes, source_line)
    /\ pc' = "returned"
    /\ UNCHANGED <<detailed, ast_nodes, source_line>>
    /\ UNCHANGED <<mainVars, renderArgs, deepVars>>

\* explainer.get_detailed_explanation(ast_nodes, source_line)
CallDetailed ==
    /\ pc = "call"
    /\ detailed
    /\ explanation' = get_detailed_explanation(ast_nodes, source_line)
    /\ pc' = "returned"
    /\ UNCHANGED <<detailed, ast_nodes, source_line>>
    /\ UNCHANGED <<mainVars, renderArgs, deepVars>>

NextExplain == CallExplain \/ CallDetailed

SpecExplain == InitExplain /\ [][NextExplain]_vars

(***************************************************************************)
(* Direct calls of annotate_code_with_explanations on a given line map,    *)
(* with the maximum, the color switch and the file's lines as arguments.   *)
(***************************************************************************)
\* values of --max-annotations (type=int accepts any integer; 5 is the default)
MaxAnnotationChoices == {-1, 0, 1, 2, 5}

\* a file of two long lines, of 100 and of 112 characters
LongLines ==
    <<"  static const unsigned long long accumulated_total_of_all_measurements = initial_measurement_value;",
      "  static const unsigned long long accumulated_total_of_all_measurements = compute_initial_measurement_value(42);">>

RenderFiles == {SourceLines, LongLines}

\* the tag sets of a line: at most MaxTags tags, or all of ExplainTags
RenderTagSets ==
    {T \in SUBSET ExplainTags : Cardinality(T) \in 1..MaxTags} \cup {ExplainTags}

\* the line maps: empty, or one line of the file with a tag set
RenderMaps ==
    {EmptyMap} \cup {(L :> T) : L \in 1..2, T \in RenderTagSets}

InitRender ==
    /\ pc = "render"
    /\ next_line = 1
    /\ output = <<>>
    /\ line_map \in RenderMaps
    /\ lines \in RenderFiles
    /\ max_annotations \in MaxAnnotationChoices
    /\ use_colors \in BOOLEAN
    /\ detailed \in BOOLEAN
    /\ filter_config = "all"
    /\ args_file = "main.c"
    /\ clang_output = None
    /\ file_path = abspath(SplitPath("main.c"))
    /\ ast_json = None
    /\ stack = <<>>
    /\ visit = NoVisit
    /\ stack2 = <<>>
    /\ line_map2 = EmptyMap
    /\ warnings = <<>>
    /\ exit_status = -1
    /\ ast_nodes = <<>>
    /\ source_line = ""
    /\ explanation = ""
    /\ nesting = 0
    /\ level = 0
    /\ calls = 0

NextRender == RenderLine \/ RenderDone

SpecRender == InitRender /\ [][NextRender]_vars

(***************************************************************************)
(* Direct calls of collect_line_annotations, from main, on a deeply nested *)
(* tree: nesting mappings {"kind": ..., "inner": [child]}, each the only   *)
(* element of its parent's list, the innermost one {"kind": ...}.  Every   *)
(* call of collect_line_annotations on a value, a string included, is a    *)
(* frame of the interpreter's call stack: the mapping at level k is        *)
(* visited by the pending call number 2k - 1.                              *)
(***************************************************************************)
\* the interpreter's limit on pending calls (sys.getrecursionlimit(), which
\* the program leaves at CPython's default)
RecursionLimit == 1000

\* the frames below the first call of collect_line_annotations: the module
\* and main
BaseFrames == 2

\* one more call fits the interpreter's call stack
CallFits == BaseFrames + calls + 1 <= RecursionLimit

InitDeep ==
    /\ pc = "deep_dict"
    /\ nesting \in 1..MaxNesting
    /\ level = 1
    /\ calls = 1
    /\ line_map = EmptyMap
    /\ filter_config = "clean"
    /\ detailed = FALSE
    /\ args_file = "main.c"
    /\ clang_output = None
    /\ file_path = abspath(SplitPath("main.c"))
    /\ ast_json = None
    /\ stack = <<>>
    /\ visit = NoVisit
    /\ stack2 = <<>>
    /\ line_map2 = EmptyMap
    /\ next_line = 0
    /\ output = <<>>
    /\ warnings = <<>>
    /\ exit_status = -1
    /\ ast_nodes = <<>>
    /\ source_line = ""
    /\ explanation = ""
    /\ max_annotations = 5
    /\ use_colors = TRUE
    /\ lines = SourceLines

\* the call on a mapping that has a child: nothing to register (no loc, no
\* range); the call on its kind returns at once, the call on its list is made
DeepVisitDict ==
    /\ pc = "deep_dict"
    /\ level < nesting
    /\ CallFits
    /\ calls' = calls + 1
    /\ pc' = "deep_list"
    /\ UNCHANGED <<nesting, level>>
    /\ UNCHANGED <<detailed, mainVars, explainerVars, renderArgs>>

\* the call on the list: the call on its only element is made
DeepVisitList ==
    /\ pc = "deep_list"
    /\ CallFits
    /\ calls' = calls + 1
    /\ level' = level + 1
    /\ pc' = "deep_dict"
    /\ UNCHANGED nesting
    /\ UNCHANGED <<detailed, mainVars, explainerVars, renderArgs>>

\* the call on the innermost mapping: the call on its kind returns at once,
\* and so do all the pending calls
DeepReturn ==
    /\ pc = "deep_dict"
    /\ level = nesting
    /\ CallFits
    /\ calls' = 0
    /\ pc' = "returned"
    /\ UNCHANGED <<nesting, level>>
    /\ UNCHANGED <<detailed, mainVars, explainerVars, renderArgs>>

\* the next call does not fit: the interpreter raises RecursionError, which
\* nothing catches; the process ends with a traceback and status 1
DeepRecursionError ==
    /\ pc \in {"deep_dict", "deep_list"}
    /\ ~CallFits
    /\ calls' = 0
    /\ pc' = "raised"
    /\ exit_status' = 1
    /\ UNCHANGED <<nesting, level>>
    /\ UNCHANGED <<detailed, args_file, filter_config, clang_output, file_path,
                   ast_json, stack, line_map, visit, stack2, line_map2,
                   next_line, output, warnings>>
    /\ UNCHANGED <<explainerVars, renderArgs>>

NextDeep == DeepVisitDict \/ DeepVisitList \/ DeepReturn \/ DeepRecursionError

SpecDeep == InitDeep /\ [][NextDeep]_vars

(***************************************************************************)
(* Properties.                                                             *)
(***************************************************************************)
\* the tags of line L ({} when the line has none)
Tags(map, L) == IF L \in DOMAIN map THEN map[L] ELSE {}

\* the traversal has returned
Collected == pc \in {"collect", "render", "exit"} /\ ast_json # None /\ stack = <<>>

\* C1 (filter soundness): whatever the document, the target and the
\* profile, every tag stored at every line of the line map, during and
\* after the traversal, is one the active profile includes.
FilterSoundness ==
    \A L \in DOMAIN line_map :
        \A tag \in line_map[L] : should_include_node(tag, filter_config)

\* C1 witness: the traversal of the snippet under profile minimal has
\* ended, a node of kind UnheardOfNodeXYZ located on line 2 was visited,
\* and the map holds the tags of the other lines only.
FilterSoundnessWitness ==
    /\ Collected
    /\ filter_config = "minimal"
    /\ clang_output =
         SnippetTree(NodeOf(<<"UnheardOfNodeXYZ">>, <<LocOf(<<>>, <<2>>, <<>>)>>, <<>>, <<>>))
    /\ DOMAIN line_map = {1, 3, 4}

\* the locations of the node just visited, and what they say
VisitKind == Get(visit.node, "kind")
VisitRange == Get(visit.node, "range")
LineOf(loc) == Get(loc, "line")
HasFile(loc) == \E i \in 1..Len(loc.keys) : loc.keys[i] = "file"
HasKey(d, key) == \E i \in 1..Len(d.keys) : d.keys[i] = key

\* the file of the location denotes the target file: the absolute paths
\* are equal, or else the file names are
Denotes(loc) ==
    LET f == SplitPath(Get(loc, "file").s) IN
    \/ abspath(f) = abspath(file_path)
    \/ basename(f) = basename(abspath(file_path))

\* the location carries a line (1 or more) of the target file
OwnedLine(loc) ==
    /\ loc.t = "dict"
    /\ LineOf(loc).t = "int"
    /\ LineOf(loc).n >= 1
    /\ (HasFile(loc) => Denotes(loc))

\* the node just visited has an included kind, no direct location, and a
\* range whose begin and end each resolve to an owned line
RangeNodeVisited ==
    /\ pc = "collect"
    /\ visit.node # None
    /\ VisitKind.t = "str"
    /\ VisitKind.s # ""
    /\ should_include_node(VisitKind.s, filter_config)
    /\ ~HasKey(visit.node, "loc")
    /\ VisitRange.t = "dict"
    /\ OwnedLine(Get(VisitRange, "begin"))
    /\ OwnedLine(Get(VisitRange, "end"))

\* C2 (range registration): right after the visit of a node with an
\* included kind, no direct location and a range from owned line B to
\* owned line E, the node's kind is on line B and on line E, no other line
\* has gained it, and nothing else in the map has changed; so a line
\* strictly between B and E has the tags it had before.
RangeEndpointsOnly ==
    RangeNodeVisited =>
        LET k == VisitKind.s
            B == LineOf(Get(VisitRange, "begin")).n
            E == LineOf(Get(VisitRange, "end")).n
        IN  /\ k \in Tags(line_map, B)
            /\ k \in Tags(line_map, E)
            /\ DOMAIN line_map = DOMAIN visit.before \cup {B, E}
            /\ \A L \in DOMAIN line_map :
                   Tags(line_map, L) =
                       Tags(visit.before, L) \cup (IF L \in {B, E} THEN {k} ELSE {})

\* C2 witness: a node ranging over lines 2 to 4 has just been visited, and
\* line 3, inside its range, has not got its kind.
RangeEndpointsOnlyWitness ==
    /\ RangeNodeVisited
    /\ LineOf(Get(VisitRange, "begin")).n = 2
    /\ LineOf(Get(VisitRange, "end")).n = 4
    /\ VisitKind.s \in Tags(line_map, 2) \cap Tags(line_map, 4)
    /\ VisitKind.s \notin Tags(line_map, 3)

\* the locations process_location is called on for the node just visited
VisitLocations ==
    {loc \in ({Get(visit.node, "loc")}
              \cup (IF VisitRange.t = "dict"
                    THEN {Get(VisitRange, "begin"), Get(VisitRange, "end")}
                    ELSE {})) : loc.t = "dict"}

\* a node whose kind passes the profile has just been visited, and none
\* of the lines of its locations had the kind before
KindNodeVisited ==
    /\ pc = "collect"
    /\ visit.node # None
    /\ VisitKind.t = "str"
    /\ should_include_node(VisitKind.s, filter_config)
    /\ \A loc \in VisitLocations :
           LineOf(loc).t = "int" => VisitKind.s \notin Tags(visit.before, LineOf(loc).n)

\* C3 as stated (location ownership): for every location of the node with
\* an integer line, the kind is registered at the line if the location
\* has no file field, and, if it has one, exactly if the file denotes the
\* target file.
LocationOwnershipAsStated ==
    KindNodeVisited =>
        \A loc \in VisitLocations :
            LineOf(loc).t = "int" =>
                LET registered == VisitKind.s \in Tags(line_map, LineOf(loc).n) IN
                /\ (~HasFile(loc) => registered)
                /\ (HasFile(loc) /\ Cardinality(VisitLocations) = 1
                        => (registered <=> Denotes(loc)))

\* C3 amended: for every location of the node with a non-zero integer line
\* and a non-empty kind passing the profile, the kind is registered at
\* the line if the location has no file field or an empty one, and
\* otherwise exactly if the file denotes the target file.
LocationOwnership ==
    KindNodeVisited /\ VisitKind.s # "" =>
        \A loc \in VisitLocations :
            LineOf(loc).t = "int" /\ LineOf(loc).n # 0 =>
                LET registered == VisitKind.s \in Tags(line_map, LineOf(loc).n)
                    nofile == ~HasFile(loc) \/ Get(loc, "file").s = ""
                IN  /\ (nofile => registered)
                    /\ (~nofile /\ Cardinality(VisitLocations) = 1
                            => (registered <=> Denotes(loc)))

\* C3 witness: a VarDecl whose location names /usr/include/main.c, line 2,
\* has just been visited and is registered at line 2 of /proj/main.c (the
\* file names are equal, the absolute paths are not).
LocationOwnershipWitness ==
    /\ KindNodeVisited
    /\ VisitKind.s = "VarDecl"
    /\ Get(visit.node, "loc") = LocOf(<<"/usr/include/main.c">>, <<2>>, <<>>)
    /\ "VarDecl" \in Tags(line_map, 2)

\* the rules all of whose required tags are among the tags passed
MatchingRules(tags) ==
    {i \in 1..Len(patterns) : Elems(patterns[i].nodes) \subseteq tags}

\* the tags of a set in lexicographic order
InOrder(tags) == SelectSeq(TagOrder, LAMBDA t : t \in tags)

\* the catalog's description of a tag, unknownPrefix before a tag the
\* catalog does not know
DescriptionOf(tag, unknownPrefix) ==
    IF tag \in DOMAIN explanations THEN explanations[tag] ELSE unknownPrefix \o tag

\* the per-tag descriptions d1..dn of a tag set, in sorted tag order
Descriptions(tags, unknownPrefix) ==
    [i \in 1..Cardinality(tags) |-> DescriptionOf(InOrder(tags)[i], unknownPrefix)]

\* d1, ..., d(n-1), and dn
Enumeration(d) ==
    JoinComma(SubSeq(d, 1, Len(d) - 1)) \o ", and " \o d[Len(d)]

\* explain_ast_nodes has returned from a call on a non-empty list
ExplainReturned == pc = "returned" /\ ~detailed /\ ast_nodes # <<>>

\* C4 (pattern priority): when at least one rule's required tags are all
\* among the tags passed, explain_ast_nodes returns the text of the rule
\* with the smallest index among them, and no per-tag description.
PatternPriority ==
    ExplainReturned /\ MatchingRules(Elems(ast_nodes)) # {} =>
        LET first == CHOOSE i \in MatchingRules(Elems(ast_nodes)) :
                         \A j \in MatchingRules(Elems(ast_nodes)) : i <= j
        IN  /\ explanation = patterns[first].text
            /\ \A t \in Elems(ast_nodes) : explanation # DescriptionOf(t, "AST node: ")

\* C4 witness: the call on FunctionDecl, CompoundStmt and ParmVarDecl, whose
\* tags hold rule 1 and rule 2, has returned the text of rule 1.
PatternPriorityWitness ==
    /\ ExplainReturned
    /\ Elems(ast_nodes) = {"FunctionDecl", "CompoundStmt", "ParmVarDecl"}
    /\ MatchingRules(Elems(ast_nodes)) = {1, 2}
    /\ explanation = "defines a function with a body containing statements"

\* explain_ast_nodes has returned from a call on tags that match no rule
FallbackReturned == ExplainReturned /\ MatchingRules(Elems(ast_nodes)) = {}

\* C5 as stated (fallback join rule): d1 for one tag, "d1 and d2" for
\* two, and for three or more the enumeration "d1, ..., and dn" with no
\* other text before or after it.
FallbackJoinAsStated ==
    FallbackReturned =>
        LET d == Descriptions(Elems(ast_nodes), "AST node: ") IN
        explanation = IF Len(d) = 1 THEN d[1]
                      ELSE IF Len(d) = 2 THEN d[1] \o " and " \o d[2]
                      ELSE Enumeration(d)

\* C5 amended: d1 for one tag, "d1 and d2" for two, and for three or more
\* the word "combines", a space, and the enumeration "d1, ..., and dn".
FallbackJoin ==
    FallbackReturned =>
        LET d == Descriptions(Elems(ast_nodes), "AST node: ") IN
        explanation = IF Len(d) = 1 THEN d[1]
                      ELSE IF Len(d) = 2 THEN d[1] \o " and " \o d[2]
                      ELSE "combines " \o Enumeration(d)

\* C5 witness: the call on VarDecl, ReturnStmt and CompoundStmt, which
\* match no rule, has returned the three descriptions after "combines".
FallbackJoinWitness ==
    /\ FallbackReturned
    /\ ast_nodes = <<"VarDecl", "ReturnStmt", "CompoundStmt">>
    /\ explanation = "combines represents a block of statements enclosed in braces {}"
                     \o ", returns a value from a function"
                     \o ", and declares a variable with optional initialization"

\* a node kind the explanation catalog does not know
UnknownTag == "UnheardOfNodeXYZ"

\* the rendered lines whose tags hold the unknown kind and match no rule
FallbackLines ==
    {i \in 1..Len(output) :
        /\ UnknownTag \in Tags(line_map, output[i].num)
        /\ MatchingRules(Tags(line_map, output[i].num)) = {}}

\* what the fallback phase returns for a tag set
FallbackText(tags, unknownPrefix) ==
    LET d == Descriptions(tags, unknownPrefix) IN
    IF Len(d) = 1 THEN d[1]
    ELSE IF Len(d) = 2 THEN d[1] \o " and " \o d[2]
    ELSE "combines " \o Enumeration(d)

\* a run that got its document never fails
NoErrorAfterParse == pc = "exit" /\ ast_json # None => exit_status = 0

\* C6 as stated (unknown tag tolerance): a run over a document with a node
\* of a kind the catalog does not know ends without error; the kind is on
\* a line only if the profile includes it, and the explanation of a line
\* that holds it and matches no rule is built from the description
\* "unrecognized category: <kind>".
UnknownTagAsStated ==
    /\ NoErrorAfterParse
    /\ \A L \in DOMAIN line_map :
           UnknownTag \in line_map[L] => should_include_node(UnknownTag, filter_config)
    /\ \A i \in FallbackLines :
           output[i].explanation =
               FallbackText(Tags(line_map, output[i].num), "unrecognized category: ")
               \o (IF detailed THEN ContextHint(output[i].code) ELSE "")

\* C6 amended: the same, the description being "AST node: <kind>".
UnknownTagTolerance ==
    /\ NoErrorAfterParse
    /\ \A L \in DOMAIN line_map :
           UnknownTag \in line_map[L] => should_include_node(UnknownTag, filter_config)
    /\ \A i \in FallbackLines :
           output[i].explanation =
               FallbackText(Tags(line_map, output[i].num), "AST node: ")
               \o (IF detailed THEN ContextHint(output[i].code) ELSE "")

\* C6 witness: the run has ended with status 0, line 3 holds ReturnStmt and
\* the unknown kind, and its explanation joins the two descriptions.
UnknownTagToleranceWitness ==
    /\ pc = "exit"
    /\ exit_status = 0
    /\ ~detailed
    /\ Tags(line_map, 3) = {"ReturnStmt", UnknownTag}
    /\ Len(output) = Len(SourceLines)
    /\ output[3].explanation =
           "returns a value from a function and AST node: UnheardOfNodeXYZ"

\* C7 (empty tags yield the empty string): a call of explain_ast_nodes or
\* of get_detailed_explanation on an empty tag list returns "", whatever
\* the source text.
EmptyTagsEmptyString ==
    pc = "returned" /\ ast_nodes = <<>> => explanation = ""

\* the run got its document and the traversal left the line map empty
EmptyResult == pc = "exit" /\ ast_json # None /\ DOMAIN line_map = {}

\* the plain source lines, as rendered without tags
PlainLines ==
    [i \in 1..Len(SourceLines) |->
        [num |-> i, code |-> SourceLines[i], displayed |-> <<>>, annotation |-> "",
         wrapped |-> FALSE,
         explanation |-> ""]]

\* C8 as stated (EmptyResult still renders): a run whose traversal left the
\* line map empty has printed a warning, has rendered the plain source
\* lines, and ends with status 0.
EmptyResultAsStated ==
    EmptyResult =>
        /\ warnings # <<>>
        /\ output = PlainLines
        /\ exit_status = 0

\* C8 amended: a run whose traversal left the line map empty has printed
\* the warning, has rendered nothing (main returns before the render
\* step), and ends with status 0.
EmptyResultNonFatal ==
    EmptyResult =>
        /\ warnings = <<"No AST annotations found">>
        /\ output = <<>>
        /\ next_line = 0
        /\ exit_status = 0

\* C8 witness: a run over a document whose only located node belongs to
\* another file has ended with the warning.
EmptyResultWitness ==
    /\ EmptyResult
    /\ clang_output =
         ProbeTree(NodeOf(<<"VarDecl">>, <<LocOf(<<"/usr/include/stdio.h">>, <<2>>, <<>>)>>,
                          <<>>, <<>>))
    /\ warnings # <<>>
    /\ exit_status = 0

\* the document is the snippet's tree: the function declaration and its
\* body block each range from line 1 to line 4
IsSnippet ==
    /\ ast_json # None
    /\ LET top == Get(ast_json, "inner").items[1] IN
       /\ Get(top, "kind") = JStr("FunctionDecl")
       /\ Get(top, "range") = RangeOf(LocOf(<<>>, <<1>>, <<>>), LocOf(<<>>, <<4>>, <<>>))
       /\ Get(Get(top, "inner").items[1], "kind") = JStr("CompoundStmt")
       /\ Get(Get(top, "inner").items[1], "range") =
              RangeOf(LocOf(<<>>, <<1>>, <<>>), LocOf(<<>>, <<4>>, <<>>))

\* the kind of the extra node of the document
ProbeKindSet ==
    {k[1] : k \in {q \in ProbeKinds : q # <<>>}}

\* C9 as stated (closing line of the example): under profile clean the
\* tags of line 4 of the snippet are none or the block kind only; the
\* function declaration's kind is not among them.
ClosingLineAsStated ==
    Collected /\ IsSnippet /\ filter_config = "clean" =>
        /\ Tags(line_map, 4) \ ProbeKindSet \subseteq {"CompoundStmt"}
        /\ "FunctionDecl" \notin Tags(line_map, 4)

\* C9 amended: under profile clean line 4 of the snippet holds the block
\* kind and the function declaration's kind, both registered at the end
\* of their ranges, and no other kind of the example.
ClosingLine ==
    Collected /\ IsSnippet /\ filter_config = "clean" =>
        Tags(line_map, 4) \ ProbeKindSet = {"CompoundStmt", "FunctionDecl"}

\* C9 witness: the traversal of the snippet (a VarDecl on line 2) under
\* clean has ended and line 4 holds exactly CompoundStmt and FunctionDecl.
ClosingLineWitness ==
    /\ Collected
    /\ IsSnippet
    /\ filter_config = "clean"
    /\ Tags(line_map, 2) = {"VarDecl"}
    /\ Tags(line_map, 4) = {"CompoundStmt", "FunctionDecl"}

\* every order in which the tags of a set can be passed
Orders(tags) ==
    {s \in [1..Cardinality(tags) -> tags] : \A i, j \in DOMAIN s : i # j => s[i] # s[j]}

\* C10 (determinism and order independence): the traversal of the same
\* document with mapping keys and list elements in another order ends
\* with the same line map; and every line rendered carries the annotation
\* of that map and the explanation the explainer returns for the line's
\* tags passed in any order.
OrderIndependence ==
    /\ Collected => stack2 = <<>> /\ line_map2 = line_map
    /\ \A i \in 1..Len(output) :
           LET r == output[i]
               tags == Tags(line_map, r.num)
           IN  /\ r.annotation = AstAnnotation(line_map2, r.num)
               /\ \A order \in Orders(tags) :
                      r.explanation =
                          IF tags = {} THEN ""
                          ELSE IF detailed THEN get_detailed_explanation(order, r.code)
                          ELSE explain_ast_nodes(order, r.code)

\* C10 witness: the run has ended, the document was traversed in two
\* orders, and line 3, rendered, holds two tags that match no rule.
OrderIndependenceWitness ==
    /\ pc = "exit"
    /\ Len(output) = Len(SourceLines)
    /\ Reordered(ast_json) # ast_json
    /\ Tags(line_map, 3) = {"ReturnStmt", "VarDecl"}
    /\ output[3].explanation =
           "returns a value from a function and declares a variable with optional initialization"

\* the rendered lines that have tags
AnnotatedLines == {i \in 1..Len(output) : Tags(line_map, output[i].num) # {}}

\* the "+K more" entry
Sentinel(K) == "... +" \o Str(K) \o " more"

\* the annotation as shown: the entries listed, without color markup
VisibleAnnotation(r) == " // " \o JoinComma(r.displayed)

\* the entries of rendered line r are the k smallest tags of the line in
\* sorted order, followed by the sentinel for the others exactly when the
\* line has more than max_annotations tags
ListsSmallest(r, k) ==
    LET tags == Tags(line_map, r.num)
        n == Cardinality(tags)
        listed == SubSeq(InOrder(tags), 1, k)
    IN  /\ k <= max_annotations
        /\ r.displayed = IF n > max_annotations
                         THEN Append(listed, Sentinel(n - k))
                         ELSE listed
        /\ n <= max_annotations => k = n
        /\ ~use_colors => r.annotation = VisibleAnnotation(r)

\* C11 (annotation truncation): for every rendered line with n >= 1 tags
\* and every integer maximum M, the annotation lists at most M tags, the
\* smallest ones in sorted order, with the sentinel "+K more" exactly when
\* n > M, K being the number of tags of the line that are not listed.
AnnotationTruncation ==
    \A i \in AnnotatedLines :
        \E k \in 0..Cardinality(Tags(line_map, output[i].num)) :
            ListsSmallest(output[i], k)

\* C12 (continuation line by visible length): the annotation of a line is
\* moved to a continuation line exactly when the length of the code plus
\* the length of the annotation as shown, without color markup, exceeds 120,
\* with colors and without.
WrapByVisibleLength ==
    \A i \in AnnotatedLines :
        output[i].wrapped <=>
            Len(output[i].code) + Len(VisibleAnnotation(output[i])) > 120

\* the mappings reachable from a value through mapping values and list
\* elements, the value included
RECURSIVE Mappings(_)
Mappings(v) ==
    IF ~IsContainer(v) THEN {}
    ELSE (IF v.t = "dict" THEN {v} ELSE {})
         \cup UNION {Mappings(v.items[i]) : i \in 1..Len(v.items)}

\* the locations of a node: its loc, and the begin and end of its range
PlacesOf(node) ==
    {Get(node, "loc"), Get(Get(node, "range"), "begin"), Get(Get(node, "range"), "end")}

\* the node has a kind the active profile includes
IncludedKind(node) ==
    /\ Get(node, "kind").t = "str"
    /\ Get(node, "kind").s # ""
    /\ should_include_node(Get(node, "kind").s, filter_config)

\* the ancestor of the probe in a nested tree
AncestorOfProbe == Get(ast_json, "inner").items[1]

\* C13 (filtering is per node, never a traversal cutoff): when the
\* traversal has returned, every node of the tree, reachable through any
\* mapping value or list element, that has a kind the profile includes and
\* an owned location is registered at that location's line, whatever its
\* ancestors are.
PerNodeFiltering ==
    Collected =>
        \A node \in Mappings(ast_json) :
            \A place \in PlacesOf(node) :
                IncludedKind(node) /\ OwnedLine(place) =>
                    Get(node, "kind").s \in Tags(line_map, LineOf(place).n)

\* C13 witness: the traversal under clean of a tree has returned in which
\* the probe, a VarDecl on line 2, is the child of a node the profile
\* excludes, and line 2 holds VarDecl.
PerNodeFilteringWitness ==
    /\ Collected
    /\ filter_config = "clean"
    /\ ast_json \in NestedTrees
    /\ Get(AncestorOfProbe, "kind") = JStr("ParenExpr")
    /\ ~should_include_node("ParenExpr", filter_config)
    /\ Get(AncestorOfProbe, "inner").items[1] =
           NodeOf(<<"VarDecl">>, <<LocOf(<<>>, <<2>>, <<>>)>>, <<>>, <<>>)
    /\ line_map = (2 :> {"VarDecl"})

\* C14 (traversal is not limited by nesting depth): for a tree of any
\* nesting depth, collect_line_annotations ends by returning, having
\* visited every node down to the innermost one; it never ends in a failure
\* of the call stack.
DepthUnlimited ==
    /\ pc # "raised"
    /\ pc = "returned" => level = nesting

====
